---- MODULE Spec2Model ----
(***************************************************************************)
(* Model of src/api.ts of editorconfig-vscode: the mapping between         *)
(* EditorConfig properties and vscode TextEditorOptions, the resolution of *)
(* the options of a document and their application to the active editor.  *)
(*                                                                         *)
(* JavaScript values are tagged tuples, so that a number, a string, a      *)
(* boolean and undefined never compare equal (===).  A JavaScript object   *)
(* is a function from the set of its own keys to values: a key may be      *)
(* present and hold undefined, which differs from the key being absent.    *)
(***************************************************************************)
EXTENDS Integers, Sequences, FiniteSets, TLC

VARIABLES
    \* calls of the pure converters fromEditorConfig / toEditorConfig
    call, inConfig, inDefaults, inOptions, outOptions, outConfig,
    \* resolveTextEditorOptions: document, host settings, async position
    doc, callbacks, pc, parsed, core, result, notified,
    \* applyTextEditorOptions: active editor, caller's object, history
    editor, newOptions, handlers, passed, before, applies, reported,
    \* the host: workspace folders and the 'editor' configuration section
    workspace

mergeVars == <<call, inConfig, inDefaults, inOptions, outOptions, outConfig>>
resolveVars == <<doc, callbacks, pc, parsed, core, result, notified>>
applyVars == <<editor, newOptions, handlers, passed, before, applies, reported>>
vars == <<mergeVars, resolveVars, applyVars, workspace>>

----------------------------------------------------------------------------
(* Bounds *)

\* numeric sizes range over 1..MaxSize
MaxSize == 2
\* number of consecutive calls of applyTextEditorOptions with one object
MaxApplies == 3

----------------------------------------------------------------------------
(* JavaScript values and objects *)

Undefined == <<"undefined">>
NaN == <<"NaN">>
Num(n) == <<"number", n>>
Str(s) == <<"string", s>>
Bool(b) == <<"boolean", b>>

IsNumber(v) == v[1] = "number" \/ v[1] = "NaN"

\* JavaScript truthiness of a value: (if (v) ...)
Truthy(v) ==
    CASE v[1] = "undefined" -> FALSE
      [] v[1] = "NaN" -> FALSE
      [] v[1] = "number" -> v[2] /= 0
      [] v[1] = "string" -> v[2] /= ""
      [] v[1] = "boolean" -> v[2]

\* a ?? b
Nullish(a, b) == IF a = Undefined THEN b ELSE a

EmptyObj == <<>>

\* o.k : reading an absent key yields undefined
Get(o, k) == IF k \in DOMAIN o THEN o[k] ELSE Undefined

\* o.k = v
Put(o, k, v) == [x \in DOMAIN o \cup {k} |-> IF x = k THEN v ELSE o[x]]

\* delete o.k
Delete(o, k) == [x \in DOMAIN o \ {k} |-> o[x]]

\* all objects whose keys are among the domain of choices, each own key
\* holding one of the values choices gives for it
Objects(choices) ==
    UNION {{o \in [K -> UNION {choices[k] : k \in DOMAIN choices}] :
                \A k \in K : o[k] \in choices[k]} : K \in SUBSET DOMAIN choices}

Sizes == {Num(n) : n \in 1..MaxSize}

----------------------------------------------------------------------------
(* Strings as character sequences, for String() and parseInt() *)

Digit == <<"0", "1", "2", "3", "4", "5", "6", "7", "8", "9">>

RECURSIVE Decimal(_)
\* the decimal digits of a natural number
Decimal(n) == IF n < 10 THEN <<Digit[n + 1]>>
              ELSE Append(Decimal(n \div 10), Digit[(n % 10) + 1])

\* the characters of the strings that occur as option values
CharsOf(s) ==
    CASE s = "auto" -> <<"a", "u", "t", "o">>
      [] s = "tab" -> <<"t", "a", "b">>
      [] s = "tabSize" -> <<"t", "a", "b", "S", "i", "z", "e">>
      [] s = "unset" -> <<"u", "n", "s", "e", "t">>
      [] s = "" -> <<>>

\* String(v) for a number or a string
String(v) == IF v[1] = "number" THEN Decimal(v[2]) ELSE CharsOf(v[2])

DigitValue(c) == CHOOSE d \in 0..9 : Digit[d + 1] = c

IsDigit(c) == \E d \in 0..9 : Digit[d + 1] = c

RECURSIVE ParseDigits(_, _, _)
\* reads digits from position i on, stops at the first other character
ParseDigits(chars, i, acc) ==
    IF i > Len(chars) \/ ~IsDigit(chars[i]) THEN acc
    ELSE ParseDigits(chars, i + 1, acc * 10 + DigitValue(chars[i]))

\* parseInt(chars, 10): NaN when the text does not start with a digit
parseInt(chars) ==
    IF chars = <<>> \/ ~IsDigit(chars[1]) THEN NaN
    ELSE Num(ParseDigits(chars, 1, 0))

----------------------------------------------------------------------------
(* fromEditorConfig *)

\* variant: the literal also takes insertSpaces from the defaults
resolvedMutSpreadDefaults(config, defaults) ==
    [tabSize |->
        Nullish(IF Get(config, "indent_style") = Str("tab")
                THEN Nullish(Get(config, "tab_width"), Get(config, "indent_size"))
                ELSE Get(config, "tab_width"),
                Get(defaults, "tabSize")),
     indentSize |->
        Nullish(IF Get(config, "indent_style") = Str("tab")
                THEN Nullish(Get(config, "indent_size"), Str("tabSize"))
                ELSE Get(config, "indent_size"),
                Get(defaults, "indentSize")),
     insertSpaces |-> Get(defaults, "insertSpaces")]

\* the object literal: tabSize and indentSize, both keys always present
initialResolved(config, defaults) ==
    [tabSize |->
        Nullish(IF Get(config, "indent_style") = Str("tab")
                THEN Nullish(Get(config, "tab_width"), Get(config, "indent_size"))
                ELSE Get(config, "tab_width"),
                Get(defaults, "tabSize")),
     indentSize |->
        Nullish(IF Get(config, "indent_style") = Str("tab")
                THEN Nullish(Get(config, "indent_size"), Str("tabSize"))
                ELSE Get(config, "indent_size"),
                Get(defaults, "indentSize"))]

\* the two post-fixes of the "tab" sentinel
derefTab(resolved, config) ==
    LET r1 == IF resolved.tabSize = Str("tab")
              THEN Put(resolved, "tabSize", Get(config, "tab_width"))
              ELSE resolved
    IN  IF r1.indentSize = Str("tab")
        THEN Put(r1, "indentSize", Str("tabSize"))
        ELSE r1

\* variant: the flag is set from the 'tab' style instead of the 'space' style
setInsertSpacesMutInverted(resolved, config) ==
    IF \/ Get(config, "indent_style") = Str("tab")
       \/ Get(config, "indent_size") = Str("tab")
       \/ Get(config, "indent_style") = Str("space")
    THEN Put(resolved, "insertSpaces",
             Bool(Get(config, "indent_style") = Str("tab")))
    ELSE resolved

\* insertSpaces, set only for a 'tab' or 'space' style or a 'tab' size
setInsertSpaces(resolved, config) ==
    IF \/ Get(config, "indent_style") = Str("tab")
       \/ Get(config, "indent_size") = Str("tab")
       \/ Get(config, "indent_style") = Str("space")
    THEN Put(resolved, "insertSpaces",
             Bool(Get(config, "indent_style") = Str("space")))
    ELSE resolved

\* variant: only undefined is dropped, 'unset' stays
dropUnsetMutKeepsUnset(resolved) ==
    LET r1 == IF resolved.tabSize = Undefined
              THEN Delete(resolved, "tabSize") ELSE resolved
    IN  IF r1.indentSize = Undefined
        THEN Delete(r1, "indentSize") ELSE r1

\* delete resolved.tabSize / resolved.indentSize when undefined or 'unset'
dropUnset(resolved) ==
    LET r1 == IF resolved.tabSize = Undefined \/ resolved.tabSize = Str("unset")
              THEN Delete(resolved, "tabSize") ELSE resolved
    IN  IF r1.indentSize = Undefined \/ r1.indentSize = Str("unset")
        THEN Delete(r1, "indentSize") ELSE r1

fromEditorConfig(config, defaults) ==
    dropUnset(setInsertSpaces(derefTab(initialResolved(config, defaults), config),
                              config))

----------------------------------------------------------------------------
(* toEditorConfig *)

\* variant: 'auto' is parsed like any other text
resolveTabSizeMutNoAuto(tabSize) == parseInt(String(tabSize))

resolveTabSize(tabSize) ==
    IF tabSize = Str("auto") THEN Num(4) ELSE parseInt(String(tabSize))

\* variant: the switch lacks case false
toEditorConfigMutNoFalseCase(options) ==
    LET ins == Get(options, "insertSpaces")
        tab == Get(options, "tabSize")
    IN  CASE ins = Bool(TRUE) ->
               IF Truthy(tab)
               THEN [indent_style |-> Str("space"), indent_size |-> resolveTabSize(tab)]
               ELSE [indent_style |-> Str("space")]
          [] ins = Str("auto") ->
               IF Truthy(tab)
               THEN [indent_style |-> Str("tab"), tab_width |-> resolveTabSize(tab)]
               ELSE [indent_style |-> Str("tab")]
          [] OTHER -> EmptyObj

toEditorConfig(options) ==
    LET ins == Get(options, "insertSpaces")
        tab == Get(options, "tabSize")
    IN  CASE ins = Bool(TRUE) ->
               IF Truthy(tab)
               THEN [indent_style |-> Str("space"), indent_size |-> resolveTabSize(tab)]
               ELSE [indent_style |-> Str("space")]
          [] ins = Bool(FALSE) \/ ins = Str("auto") ->
               IF Truthy(tab)
               THEN [indent_style |-> Str("tab"), tab_width |-> resolveTabSize(tab)]
               ELSE [indent_style |-> Str("tab")]
          [] OTHER -> EmptyObj

----------------------------------------------------------------------------
(* The host *)

\* workspace.getConfiguration('editor', doc).get(key)
getConfiguration(ws, key) == Get(ws.config, key)

pickWorkspaceDefaults(ws) ==
    IF Truthy(getConfiguration(ws, "detectIndentation"))
    THEN EmptyObj
    ELSE [tabSize |-> getConfiguration(ws, "tabSize"),
          indentSize |-> getConfiguration(ws, "indentSize"),
          insertSpaces |-> getConfiguration(ws, "insertSpaces")]

\* the Uri of the document's file, Undefined when there is none; a Uri is
\* represented by its path
getFile(d, ws) ==
    IF ~d.isUntitled THEN Str(d.fileName)
    ELSE IF ws.folders THEN Str(d.fileName)
    ELSE Undefined

resolveFile(d, ws) ==
    IF d.languageId = "Log" THEN EmptyObj
    ELSE [fileName |-> getFile(d, ws), relativePath |-> getFile(d, ws)]

----------------------------------------------------------------------------
(* resolveCoreConfig and resolveTextEditorOptions *)

\* variant: the parsed config is returned as it is
normalizeIndentSizeMutKeepsTab(config) == config

\* the rewrite of indent_size 'tab' after editorconfig.parse
normalizeIndentSize(config) ==
    IF Get(config, "indent_size") = Str("tab")
    THEN Put(config, "indent_size", Get(config, "tab_width"))
    ELSE config

\* if (editorconfigSettings): every object is truthy, the empty one too
ObjectTruthy(o) == TRUE

\* resolveTextEditorOptions calls resolveCoreConfig, which runs up to its
\* await of editorconfig.parse, or returns {} when there is no file name
ResolveBegin ==
    /\ pc = "idle"
    /\ LET file == resolveFile(doc, workspace)
       IN  IF ~Truthy(Get(file, "fileName"))
           THEN /\ core' = EmptyObj
                /\ pc' = "resolved"
                /\ notified' = [beforeResolve |-> <<>>, emptyConfig |-> <<>>]
           ELSE /\ core' = EmptyObj
                /\ pc' = "parsing"
                /\ notified' =
                     [beforeResolve |->
                         IF Truthy(Get(file, "relativePath")) /\ callbacks.onBeforeResolve
                         THEN <<Get(file, "relativePath")>> ELSE <<>>,
                      emptyConfig |-> <<>>]
    /\ UNCHANGED <<doc, callbacks, parsed, result, mergeVars, applyVars, workspace>>

\* editorconfig.parse resolves with a configuration
ParseReturns(config) ==
    /\ pc = "parsing"
    /\ parsed' = config
    /\ core' = normalizeIndentSize(config)
    /\ pc' = "resolved"
    /\ UNCHANGED <<doc, callbacks, result, notified, mergeVars, applyVars, workspace>>

\* editorconfig.parse rejects: the rejection propagates to the caller
ParseFails ==
    /\ pc = "parsing"
    /\ pc' = "rejected"
    /\ UNCHANGED <<doc, callbacks, parsed, core, result, notified,
                   mergeVars, applyVars, workspace>>

\* the continuation of resolveTextEditorOptions after its await
ResolveEnd ==
    /\ pc = "resolved"
    /\ pc' = "done"
    /\ IF ObjectTruthy(core)
       THEN /\ result' = fromEditorConfig(core, pickWorkspaceDefaults(workspace))
            /\ UNCHANGED notified
       ELSE /\ result' = EmptyObj
            /\ LET rp == Get(resolveFile(doc, workspace), "relativePath")
               IN  notified' =
                     [notified EXCEPT !.emptyConfig =
                         IF callbacks.onEmptyConfig /\ Truthy(rp)
                         THEN <<rp>> ELSE <<>>]
    /\ UNCHANGED <<doc, callbacks, parsed, core, mergeVars, applyVars, workspace>>

----------------------------------------------------------------------------
(* applyTextEditorOptions *)

\* variant: no reconciliation
reconcileMutNoCopy(options, live, ws) == options

\* variant: indentSize is taken from the live tabSize, whether or not the
\* new options have an indentSize
reconcileMutMirrorsTabSize(options, live, ws) ==
    IF /\ getConfiguration(ws, "indentSize") = Str("tabSize")
       /\ IsNumber(Get(options, "tabSize"))
    THEN Put(options, "indentSize", Get(live, "tabSize"))
    ELSE options

\* the reconciliation with the host's indentSize setting: the caller's
\* object itself is changed
reconcile(options, live, ws) ==
    IF /\ getConfiguration(ws, "indentSize") = Str("tabSize")
       /\ Get(options, "indentSize") = Undefined
       /\ IsNumber(Get(options, "tabSize"))
    THEN Put(options, "indentSize", Get(live, "indentSize"))
    ELSE options

\* one call of applyTextEditorOptions with the caller's object newOptions
ApplyTextEditorOptions ==
    /\ applies < MaxApplies
    /\ applies' = applies + 1
    /\ passed' = newOptions
    /\ before' = editor
    /\ IF ~editor.active
       THEN /\ reported' = [success |-> <<>>, noEditor |-> handlers.onNoActiveTextEditor]
            /\ UNCHANGED <<newOptions, editor>>
       ELSE LET reconciled == reconcile(newOptions, editor.options, workspace)
            IN  /\ newOptions' = reconciled
                /\ editor' = [editor EXCEPT !.options = reconciled]
                /\ reported' = [success |-> IF handlers.onSuccess
                                            THEN <<reconciled>> ELSE <<>>,
                                noEditor |-> FALSE]
    /\ UNCHANGED <<handlers, mergeVars, resolveVars, workspace>>

----------------------------------------------------------------------------
(* Calls of the converters on the inputs Init draws *)

CallFromEditorConfig ==
    /\ call = "pendingFrom"
    /\ call' = "fromEditorConfig"
    /\ outOptions' = fromEditorConfig(inConfig, inDefaults)
    /\ UNCHANGED <<inConfig, inDefaults, inOptions, outConfig,
                   resolveVars, applyVars, workspace>>

CallToEditorConfig ==
    /\ call = "pendingTo"
    /\ call' = "toEditorConfig"
    /\ outConfig' = toEditorConfig(inOptions)
    /\ UNCHANGED <<inConfig, inDefaults, inOptions, outOptions,
                   resolveVars, applyVars, workspace>>

\* toEditorConfig on the options the last fromEditorConfig returned
CallToEditorConfigOnResult ==
    /\ call = "fromEditorConfig"
    /\ call' = "roundTrip"
    /\ inOptions' = outOptions
    /\ outConfig' = toEditorConfig(outOptions)
    /\ UNCHANGED <<inConfig, inDefaults, outOptions, resolveVars, applyVars, workspace>>

----------------------------------------------------------------------------
(* Inputs *)

Bools == {Bool(TRUE), Bool(FALSE)}

\* what editorconfig.parse may return (KnownProps)
Configs ==
    Objects([indent_style |-> {Str("tab"), Str("space"), Str("unset")},
             indent_size |-> Sizes \cup {Str("tab"), Str("unset")},
             tab_width |-> Sizes \cup {Str("unset")}])

\* the defaults handed to fromEditorConfig
Defaults ==
    Objects([tabSize |-> Sizes \cup {Str("auto"), Undefined},
             indentSize |-> Sizes \cup {Str("tabSize"), Undefined},
             insertSpaces |-> Bools \cup {Undefined}])

\* the options handed to toEditorConfig
Options ==
    Objects([tabSize |-> Sizes \cup {Num(0), Num(12), Str("auto"), Str(""),
                                     Str("unset"), Undefined},
             insertSpaces |-> Bools \cup {Str("auto"), Str("unset"), Undefined}])

\* the options handed to applyTextEditorOptions
NewOptions ==
    Objects([tabSize |-> Sizes \cup {Str("auto")},
             indentSize |-> Sizes \cup {Str("tabSize"), Undefined},
             insertSpaces |-> Bools \cup {Str("auto")}])

\* the options an editor has before any call
LiveOptions ==
    {o \in Objects([tabSize |-> Sizes,
                    indentSize |-> Sizes \cup {Str("tabSize")},
                    insertSpaces |-> Bools]) :
        {"tabSize", "insertSpaces"} \subseteq DOMAIN o}

\* window.activeTextEditor: an editor, or none
Editors ==
    {[active |-> FALSE, options |-> EmptyObj]}
        \cup {[active |-> TRUE, options |-> o] : o \in LiveOptions}

Workspaces ==
    {[folders |-> f, config |-> c] :
        f \in BOOLEAN,
        c \in Objects([detectIndentation |-> Bools,
                       tabSize |-> Sizes,
                       indentSize |-> Sizes \cup {Str("tabSize")},
                       insertSpaces |-> Bools])}

Documents ==
    {[languageId |-> l, isUntitled |-> u, fileName |-> IF u THEN "Untitled-1" ELSE "a.ts"] :
        l \in {"Log", "plaintext"}, u \in BOOLEAN}

ResolveCallbacks == [onBeforeResolve : BOOLEAN, onEmptyConfig : BOOLEAN]

ApplyCallbacks == [onNoActiveTextEditor : BOOLEAN, onSuccess : BOOLEAN]

----------------------------------------------------------------------------
(* Specifications: no call shares state with another, so the converters,   *)
(* the resolution and the application are specified each on their own,     *)
(* with the variables of the other two at rest.                            *)

RestMerge ==
    /\ call = "none"
    /\ inConfig = EmptyObj
    /\ inDefaults = EmptyObj
    /\ inOptions = EmptyObj
    /\ outOptions = EmptyObj
    /\ outConfig = EmptyObj

RestResolve ==
    /\ doc = [languageId |-> "plaintext", isUntitled |-> FALSE, fileName |-> "a.ts"]
    /\ callbacks = [onBeforeResolve |-> FALSE, onEmptyConfig |-> FALSE]
    /\ pc = "idle"
    /\ parsed = EmptyObj
    /\ core = EmptyObj
    /\ result = EmptyObj
    /\ notified = [beforeResolve |-> <<>>, emptyConfig |-> <<>>]

RestApply ==
    /\ editor = [active |-> FALSE, options |-> EmptyObj]
    /\ newOptions = EmptyObj
    /\ handlers = [onNoActiveTextEditor |-> FALSE, onSuccess |-> FALSE]
    /\ passed = EmptyObj
    /\ before = editor
    /\ applies = 0
    /\ reported = [success |-> <<>>, noEditor |-> FALSE]

\* the converters, on every config, defaults and options
InitMerge ==
    /\ \/ /\ call = "pendingFrom"
          /\ inConfig \in Configs
          /\ inDefaults \in Defaults
          /\ inOptions = EmptyObj
       \/ /\ call = "pendingTo"
          /\ inConfig = EmptyObj
          /\ inDefaults = EmptyObj
          /\ inOptions \in Options
    /\ outOptions = EmptyObj
    /\ outConfig = EmptyObj
    /\ RestResolve
    /\ RestApply
    /\ workspace = [folders |-> TRUE, config |-> EmptyObj]

NextMerge ==
    \/ CallFromEditorConfig
    \/ CallToEditorConfig
    \/ CallToEditorConfigOnResult

SpecMerge == InitMerge /\ [][NextMerge]_vars

\* resolveTextEditorOptions, on every document, workspace and parse result
InitResolve ==
    /\ doc \in Documents
    /\ callbacks \in ResolveCallbacks
    /\ pc = "idle"
    /\ parsed = EmptyObj
    /\ core = EmptyObj
    /\ result = EmptyObj
    /\ notified = [beforeResolve |-> <<>>, emptyConfig |-> <<>>]
    /\ RestMerge
    /\ RestApply
    /\ workspace \in Workspaces

NextResolve ==
    \/ ResolveBegin
    \/ \E config \in Configs : ParseReturns(config)
    \/ ParseFails
    \/ ResolveEnd

SpecResolve == InitResolve /\ [][NextResolve]_vars

\* applyTextEditorOptions, called up to MaxApplies times with one object
InitApply ==
    /\ editor \in Editors
    /\ newOptions \in NewOptions
    /\ handlers \in ApplyCallbacks
    /\ passed = EmptyObj
    /\ before = editor
    /\ applies = 0
    /\ reported = [success |-> <<>>, noEditor |-> FALSE]
    /\ RestMerge
    /\ RestResolve
    /\ workspace \in {w \in Workspaces :
                        w.folders /\ DOMAIN w.config \subseteq {"indentSize"}}

NextApply == ApplyTextEditorOptions

SpecApply == InitApply /\ [][NextApply]_vars

----------------------------------------------------------------------------
(* Properties *)

IsEmpty(o) == DOMAIN o = {}

Styles == {Str("tab"), Str("space")}

Converted == call \in {"fromEditorConfig", "roundTrip"}

HasFileName == Truthy(Get(resolveFile(doc, workspace), "fileName"))

\* C1: when the file name resolves and editorconfig.parse returns a
\* configuration without keys, resolveTextEditorOptions returns the empty
\* record and, if onEmptyConfig is provided, has invoked it with the
\* relative path
C1_EmptyConfigGivesEmptyOptions ==
    (pc = "done" /\ HasFileName /\ IsEmpty(parsed)) =>
        /\ IsEmpty(result)
        /\ callbacks.onEmptyConfig =>
              notified.emptyConfig = <<Get(resolveFile(doc, workspace), "relativePath")>>

\* C2: when resolveFile yields no file name, resolveTextEditorOptions
\* returns the empty record, whatever the workspace defaults
C2_NoFileNameGivesEmptyOptions ==
    (pc = "done" /\ ~HasFileName) => IsEmpty(result)

\* C3: with an active editor, the host setting editor.indentSize 'tabSize',
\* no indentSize in the new options and a numeric tabSize, the editor's
\* indentSize after the call is the one it had before, and onSuccess
\* receives an object with that indentSize
C3_ReconcileKeepsLiveIndentSize ==
    (/\ applies >= 1
     /\ before.active
     /\ getConfiguration(workspace, "indentSize") = Str("tabSize")
     /\ Get(passed, "indentSize") = Undefined
     /\ IsNumber(Get(passed, "tabSize"))) =>
        /\ Get(editor.options, "indentSize") = Get(before.options, "indentSize")
        /\ handlers.onSuccess =>
              /\ Len(reported.success) = 1
              /\ Get(reported.success[1], "indentSize")
                    = Get(before.options, "indentSize")

C3_Witness ==
    /\ applies = 1
    /\ before.active
    /\ getConfiguration(workspace, "indentSize") = Str("tabSize")
    /\ "indentSize" \notin DOMAIN passed
    /\ Get(passed, "tabSize") = Num(1)
    /\ Get(before.options, "indentSize") = Num(2)
    /\ Get(editor.options, "indentSize") = Num(2)
    /\ handlers.onSuccess

\* C4: fromEditorConfig gives insertSpaces true when indent_style is
\* 'space', and false or no insertSpaces at all when indent_style is 'tab'
C4_InsertSpacesFollowsIndentStyle ==
    Converted =>
        /\ Get(inConfig, "indent_style") = Str("space") =>
              Get(outOptions, "insertSpaces") = Bool(TRUE)
        /\ Get(inConfig, "indent_style") = Str("tab") =>
              \/ "insertSpaces" \notin DOMAIN outOptions
              \/ outOptions.insertSpaces = Bool(FALSE)

C4_Witness ==
    /\ call = "fromEditorConfig"
    /\ Get(inConfig, "indent_style") = Str("tab")
    /\ Get(inConfig, "indent_size") = Num(2)
    /\ Get(inDefaults, "insertSpaces") = Bool(TRUE)
    /\ Get(outOptions, "insertSpaces") = Bool(FALSE)

\* C5: toEditorConfig(fromEditorConfig(config, {})).indent_style is
\* config.indent_style when that is 'tab' or 'space'
C5_IndentStyleRoundTrip ==
    (/\ call = "roundTrip"
     /\ IsEmpty(inDefaults)
     /\ Get(inConfig, "indent_style") \in Styles) =>
        Get(outConfig, "indent_style") = Get(inConfig, "indent_style")

C5_Witness ==
    /\ call = "roundTrip"
    /\ IsEmpty(inDefaults)
    /\ Get(inConfig, "indent_style") = Str("tab")
    /\ Get(inConfig, "indent_size") = Str("tab")
    /\ Get(outConfig, "indent_style") = Str("tab")

\* C6: toEditorConfig gives indent_style 'space' for insertSpaces true, with
\* indent_size the normalized tabSize only when tabSize is truthy; 'tab' for
\* insertSpaces false or 'auto', with tab_width likewise; nothing for any
\* other insertSpaces; 'auto' normalizes to 4 and a number to itself (what
\* another string normalizes to is left open)
C6_ToEditorConfigMapping ==
    call = "toEditorConfig" =>
        LET ins == Get(inOptions, "insertSpaces")
            tab == Get(inOptions, "tabSize")
            falsy == tab \in {Undefined, Num(0), Str("")}
            size == IF tab = Str("auto") THEN Num(4) ELSE tab
            sized == tab = Str("auto") \/ tab[1] = "number"
        IN  /\ ins = Bool(TRUE) =>
                  /\ DOMAIN outConfig =
                        IF falsy THEN {"indent_style"} ELSE {"indent_style", "indent_size"}
                  /\ outConfig.indent_style = Str("space")
                  /\ sized /\ ~falsy => outConfig.indent_size = size
            /\ ins \in {Bool(FALSE), Str("auto")} =>
                  /\ DOMAIN outConfig =
                        IF falsy THEN {"indent_style"} ELSE {"indent_style", "tab_width"}
                  /\ outConfig.indent_style = Str("tab")
                  /\ sized /\ ~falsy => outConfig.tab_width = size
            /\ ins \notin {Bool(TRUE), Bool(FALSE), Str("auto")} => IsEmpty(outConfig)

C6_Witness ==
    /\ call = "toEditorConfig"
    /\ Get(inOptions, "insertSpaces") = Str("auto")
    /\ Get(inOptions, "tabSize") = Str("auto")
    /\ Get(outConfig, "tab_width") = Num(4)

\* C7: fromEditorConfig({}, defaults) holds the tabSize and the indentSize
\* of defaults, each present iff defaults defines it, and no insertSpaces
C7_EmptyConfigGivesDefaults ==
    (call = "fromEditorConfig" /\ IsEmpty(inConfig)) =>
        /\ DOMAIN outOptions \subseteq {"tabSize", "indentSize"}
        /\ \A k \in {"tabSize", "indentSize"} :
              /\ k \in DOMAIN outOptions <=> Get(inDefaults, k) /= Undefined
              /\ k \in DOMAIN outOptions => outOptions[k] = inDefaults[k]

C7_Witness ==
    /\ call = "fromEditorConfig"
    /\ IsEmpty(inConfig)
    /\ Get(inDefaults, "insertSpaces") = Bool(TRUE)
    /\ Get(inDefaults, "tabSize") = Num(2)
    /\ "indentSize" \in DOMAIN inDefaults
    /\ inDefaults.indentSize = Undefined
    /\ DOMAIN outOptions = {"tabSize"}

\* C8: the record fromEditorConfig returns has no tabSize and no indentSize
\* that is undefined or 'unset': such a field is absent
C8_NoUndefinedOrUnsetSize ==
    Converted =>
        \A k \in {"tabSize", "indentSize"} :
            k \in DOMAIN outOptions =>
                outOptions[k] /= Undefined /\ outOptions[k] /= Str("unset")

C8_Witness ==
    /\ call = "fromEditorConfig"
    /\ Get(inConfig, "indent_style") = Str("tab")
    /\ Get(inConfig, "indent_size") = Str("tab")
    /\ "tab_width" \notin DOMAIN inConfig
    /\ Get(inDefaults, "tabSize") = Num(2)
    /\ "tabSize" \notin DOMAIN outOptions

\* C9: a second call of applyTextEditorOptions with the same object leaves
\* the editor's options as the first call left them
C9_ApplyTwiceIsApplyOnce ==
    (applies >= 2 /\ editor.active) =>
        /\ DOMAIN editor.options = DOMAIN before.options
        /\ \A k \in DOMAIN editor.options : editor.options[k] = before.options[k]

C9_Witness ==
    /\ applies = 2
    /\ editor.active
    /\ getConfiguration(workspace, "indentSize") = Str("tabSize")
    /\ Get(passed, "tabSize") = Num(1)
    /\ Get(editor.options, "indentSize") = Num(2)

\* C10: a result of resolveTextEditorOptions has insertSpaces iff the parsed
\* indent_style is 'tab' or 'space' (a parsed indent_size 'tab' alone does
\* not bring it), and its indentSize is never 'tab'
C10_InsertSpacesOnlyFromIndentStyle ==
    pc = "done" =>
        /\ "insertSpaces" \in DOMAIN result <=> Get(parsed, "indent_style") \in Styles
        /\ Get(result, "indentSize") /= Str("tab")

C10_Witness ==
    /\ pc = "done"
    /\ Get(parsed, "indent_size") = Str("tab")
    /\ "indent_style" \notin DOMAIN parsed
    /\ Get(parsed, "tab_width") = Num(2)
    /\ "insertSpaces" \notin DOMAIN result
    /\ Get(result, "indentSize") = Num(2)

====
